---- MODULE Spec2Model ----
(***************************************************************************)
(* A model of the MySQL MCP server (src/src/index.ts): the configuration   *)
(* read at start-up, the ListTools and CallTool request handlers, and the  *)
(* two execution helpers executeQuery and executeWrite, whose awaits on    *)
(* the database driver (createConnection, execute, end) are the points at  *)
(* which an invocation is suspended and the driver answers or fails.       *)
(*                                                                         *)
(* Strings the code inspects (tool names, SQL statements) are sequences of *)
(* one-character strings, so that toLowerCase, trim and startsWith are     *)
(* computed character by character; texts the code only builds are TLA+    *)
(* strings, assembled with \o as the template literals assemble them.      *)
(***************************************************************************)
EXTENDS Integers, Sequences, FiniteSets, TLC

\* Number of tool invocations the transport may have in flight at once.
MaxInFlight == 1

\* Number of connections the driver opens in a run; afterwards it only refuses.
MaxConnections == 2

Slots == 1..MaxInFlight

\* Number of invocations in flight at once in the runs that examine concurrency.
MaxConcurrent == 2

ConcurrentSlots == 1..MaxConcurrent

\* Every slot an invocation may occupy in some run.
AllSlots == Slots \cup ConcurrentSlots

-----------------------------------------------------------------------------
(* JavaScript string primitives used by the handlers *)

UpperLetters ==
  <<"A","B","C","D","E","F","G","H","I","J","K","L","M",
    "N","O","P","Q","R","S","T","U","V","W","X","Y","Z">>

LowerLetters ==
  <<"a","b","c","d","e","f","g","h","i","j","k","l","m",
    "n","o","p","q","r","s","t","u","v","w","x","y","z">>

WhiteSpace == {" ", "\t", "\n", "\r"}

IndexIn(letters, c) ==
  LET at == {i \in DOMAIN letters : letters[i] = c}
  IN  IF at = {} THEN 0 ELSE CHOOSE i \in at : TRUE

toLowerCase(s) ==
  [i \in DOMAIN s |->
     LET k == IndexIn(UpperLetters, s[i])
     IN  IF k # 0 THEN LowerLetters[k] ELSE s[i]]

toUpperCase(s) ==
  [i \in DOMAIN s |->
     LET k == IndexIn(LowerLetters, s[i])
     IN  IF k # 0 THEN UpperLetters[k] ELSE s[i]]

RECURSIVE trimStart(_)
trimStart(s) ==
  IF s # <<>> /\ Head(s) \in WhiteSpace THEN trimStart(Tail(s)) ELSE s

RECURSIVE trimEnd(_)
trimEnd(s) ==
  IF s # <<>> /\ s[Len(s)] \in WhiteSpace
    THEN trimEnd(SubSeq(s, 1, Len(s) - 1))
    ELSE s

trim(s) == trimEnd(trimStart(s))

startsWith(s, prefix) ==
  /\ Len(s) >= Len(prefix)
  /\ SubSeq(s, 1, Len(prefix)) = prefix

includes(list, x) == \E i \in DOMAIN list : list[i] = x

\* The text of a character sequence, as it appears inside a template literal.
RECURSIVE Str(_)
Str(s) == IF s = <<>> THEN "" ELSE Head(s) \o Str(Tail(s))

Digits == <<"0","1","2","3","4","5","6","7","8","9">>

\* Number-to-string conversion of a non-negative integer (`${n}`).
RECURSIVE NumberToString(_)
NumberToString(n) ==
  IF n < 10 THEN Digits[n + 1]
  ELSE NumberToString(n \div 10) \o Digits[(n % 10) + 1]

-----------------------------------------------------------------------------
(* Tool names and SQL statements the client may send *)

query    == <<"q","u","e","r","y">>
insert   == <<"i","n","s","e","r","t">>
update   == <<"u","p","d","a","t","e">>
delete   == <<"d","e","l","e","t","e">>
select   == <<"s","e","l","e","c","t">>
show     == <<"s","h","o","w">>
describe == <<"d","e","s","c","r","i","b","e">>
drop     == <<"d","r","o","p">>

\* Tool names a request may carry: the four tools, and names that are not tools.
ToolNames == {query, insert, update, delete, drop, <<"Q","u","e","r","y">>}

\* Variant of WriteTools: the array literal lacks 'delete'.
WriteTools_NoDelete == <<insert, update>>

\* The three write tools, in the order of the array literal of the handler.
WriteTools == <<insert, update, delete>>

\* The rest of a statement after its keyword.
Rest == <<" ", "t">>

SqlTexts ==
  {toUpperCase(k) \o Rest : k \in {select, show, describe, insert, update, delete, drop}}
  \cup {<<"\n", " ">> \o k \o Rest \o <<" ">> : k \in {select, delete}}
  \cup {select \o <<"x">> \o Rest, toUpperCase(delete) \o <<"d">> \o Rest}
  \cup {show, <<>>, <<" ">>}

-----------------------------------------------------------------------------
(* JavaScript values of request.params.arguments *)

NoField    == [t |-> "undefined", str |-> <<>>]
NumField   == [t |-> "number", str |-> <<>>]
StrField(s) == [t |-> "string", str |-> s]

JsUndefined  == [t |-> "undefined", isNull |-> FALSE, sql |-> NoField]
JsNull       == [t |-> "object", isNull |-> TRUE, sql |-> NoField]
JsObject(f)  == [t |-> "object", isNull |-> FALSE, sql |-> f]

InvalidArgs == {JsUndefined, JsNull, JsObject(NumField)}

ValidArgs == {JsObject(StrField(s)) : s \in SqlTexts}

ArgValues == InvalidArgs \cup ValidArgs

isValidQueryArgs(args) ==
  args.t = "object" /\ ~args.isNull /\ args.sql.t = "string"

\* Variant of isValidWriteArgs: the type of the sql field is not tested.
isValidWriteArgs_AnyObject(args) ==
  args.t = "object" /\ ~args.isNull

isValidWriteArgs(args) ==
  args.t = "object" /\ ~args.isNull /\ args.sql.t = "string"

-----------------------------------------------------------------------------
(* The process environment *)

EnvValue == {"undefined", "", "set"}

FlagValue == {"undefined", "true", "false"}

Environments ==
  [MYSQL_HOST : EnvValue, MYSQL_USER : EnvValue, MYSQL_PASSWORD : EnvValue,
   MYSQL_DATABASE : EnvValue, MYSQL_ALLOW_WRITE_OPS : FlagValue]

\* Variant of Missing: only an unset variable counts, the empty string passes.
Missing_OnlyUnset(x) == x = "undefined"

\* !x for an environment variable: unset or the empty string.
Missing(x) == x \in {"undefined", ""}

-----------------------------------------------------------------------------
(* What the database driver may answer *)

ConnectErrors == {"connect ECONNREFUSED"}
ExecuteErrors == {"You have an error in your SQL syntax"}
EndErrors     == {"Connection lost"}

\* Column values of a row: a JavaScript number, or a bigint given by its digits.
Num(n)    == [t |-> "number", n |-> n, digits |-> <<>>]
BigInt(d) == [t |-> "bigint", n |-> 0, digits |-> d]
JsStr(d)  == [t |-> "string", n |-> 0, digits |-> d]

\* 2^53 + 1 = 9007199254740993, the first integer a JavaScript number cannot hold.
Beyond2Pow53 == <<"9","0","0","7","1","9","9","2","5","4","7","4","0","9","9","3">>

\* 2^64 - 1 = 18446744073709551615, the largest unsigned 64-bit value.
MaxUnsigned64 ==
  <<"1","8","4","4","6","7","4","4","0","7","3","7","0","9","5","5","1","6","1","5">>

RowSets ==
  { <<>>,
    << [id |-> Num(1)] >>,
    << [id |-> Num(42)], [id |-> BigInt(Beyond2Pow53)] >>,
    << [id |-> BigInt(MaxUnsigned64)] >> }

\* The result header of a write: which keys it has ('k' in result) and their values.
Header(hasAffected, affected, hasId, id) ==
  [hasAffectedRows |-> hasAffected, affectedRows |-> affected,
   hasInsertId |-> hasId, insertId |-> id]

NoHeader == Header(FALSE, 0, FALSE, 0)

WriteResults ==
  { Header(TRUE, 1, TRUE, 0),
    Header(TRUE, 3, TRUE, 0),
    Header(TRUE, 1, TRUE, 42),
    Header(TRUE, 0, FALSE, 0),
    NoHeader }

-----------------------------------------------------------------------------
(* JSON.stringify(rows, replacer, 2) *)

\* Variant of replacer: no replacer is given, every value is kept as it is.
replacer_Identity(value) == value

\* The replacer of executeQuery: a bigint becomes the string of its digits
\* (value.toString()), any other value is kept.
replacer(value) ==
  IF value.t = "bigint" THEN JsStr(value.digits) ELSE value

\* JSON.stringify throws a TypeError on a bigint that the replacer left in place.
StringifyThrows(rows) ==
  \E i \in DOMAIN rows : replacer(rows[i].id).t = "bigint"

BigIntTypeError == "Do not know how to serialize a BigInt"

\* The JSON text of a value that is a number or a string.
SerializeValue(value) ==
  IF value.t = "number" THEN NumberToString(value.n)
  ELSE "\"" \o Str(value.digits) \o "\""

SerializeRow(row) ==
  "  {\n    \"id\": " \o SerializeValue(replacer(row.id)) \o "\n  }"

RECURSIVE SerializeRows(_)
SerializeRows(rows) ==
  IF Len(rows) = 1 THEN SerializeRow(rows[1])
  ELSE SerializeRow(Head(rows)) \o ",\n" \o SerializeRows(Tail(rows))

JSONstringify(rows) ==
  IF rows = <<>> THEN "[]" ELSE "[\n" \o SerializeRows(rows) \o "\n]"

-----------------------------------------------------------------------------
(* The CallTool handler up to its first await: what it decides *)

Return(text, isError) ==
  [kind |-> "return", text |-> text, isError |-> isError, code |-> "",
   fn |-> "none", sql |-> <<>>, operation |-> <<>>]

Throw(code, message) ==
  [kind |-> "throw", text |-> message, isError |-> FALSE, code |-> code,
   fn |-> "none", sql |-> <<>>, operation |-> <<>>]

Call(fn, sql, operation) ==
  [kind |-> "call", text |-> "", isError |-> FALSE, code |-> "",
   fn |-> fn, sql |-> sql, operation |-> operation]

\* Variant of IsReadOnly: the negation of the test is lost.
IsReadOnly_Inverted(lowerCaseQuery) ==
  ~(\/ startsWith(lowerCaseQuery, select)
    \/ startsWith(lowerCaseQuery, show)
    \/ startsWith(lowerCaseQuery, describe))

\* The read-only check of the query tool on the normalised statement.
IsReadOnly(lowerCaseQuery) ==
  \/ startsWith(lowerCaseQuery, select)
  \/ startsWith(lowerCaseQuery, show)
  \/ startsWith(lowerCaseQuery, describe)

\* Variant of QueryBranch: the normalised text is what executeQuery receives.
QueryBranch_Normalized(args) ==
  IF ~isValidQueryArgs(args)
    THEN Throw("InvalidParams",
               "Invalid arguments for query tool. Expected { \"sql\": \"...\" }")
  ELSE LET sqlQuery == args.sql.str
           lowerCaseQuery == trim(toLowerCase(sqlQuery))
       IN IF ~IsReadOnly(lowerCaseQuery)
            THEN Return("Error: Only SELECT, SHOW, or DESCRIBE queries are allowed for the \"query\" tool.", TRUE)
            ELSE Call("executeQuery", lowerCaseQuery, <<>>)

QueryBranch(args) ==
  IF ~isValidQueryArgs(args)
    THEN Throw("InvalidParams",
               "Invalid arguments for query tool. Expected { \"sql\": \"...\" }")
  ELSE LET sqlQuery == args.sql.str
           lowerCaseQuery == trim(toLowerCase(sqlQuery))
       IN IF ~IsReadOnly(lowerCaseQuery)
            THEN Return("Error: Only SELECT, SHOW, or DESCRIBE queries are allowed for the \"query\" tool.", TRUE)
            ELSE Call("executeQuery", sqlQuery, <<>>)

\* Variant of MatchesTool: any write keyword is accepted for any write tool.
MatchesTool_AnyWrite(lowerCaseStatement, toolName) ==
  \E i \in DOMAIN WriteTools : startsWith(lowerCaseStatement, WriteTools[i])

\* The prefix check of a write tool on the normalised statement.
MatchesTool(lowerCaseStatement, toolName) ==
  startsWith(lowerCaseStatement, toolName)

\* Variant of WriteBranch: the arguments are validated before the flag is read.
WriteBranch_ShapeFirst(toolName, args, allowWriteOps) ==
  IF ~isValidWriteArgs(args)
    THEN Throw("InvalidParams",
               "Invalid arguments for " \o Str(toolName) \o " tool. Expected { \"sql\": \"...\" }")
  ELSE IF ~allowWriteOps
    THEN Return("Error: Write operations are disabled. Set MYSQL_ALLOW_WRITE_OPS=true in MCP settings to enable "
                  \o Str(toolName) \o ".", TRUE)
  ELSE LET sqlStatement == args.sql.str
           lowerCaseStatement == trim(toLowerCase(sqlStatement))
       IN IF ~MatchesTool(lowerCaseStatement, toolName)
            THEN Return("Error: SQL statement does not appear to be a valid "
                          \o Str(toUpperCase(toolName)) \o " statement.", TRUE)
            ELSE Call("executeWrite", sqlStatement, toolName)

WriteBranch(toolName, args, allowWriteOps) ==
  IF ~allowWriteOps
    THEN Return("Error: Write operations are disabled. Set MYSQL_ALLOW_WRITE_OPS=true in MCP settings to enable "
                  \o Str(toolName) \o ".", TRUE)
  ELSE IF ~isValidWriteArgs(args)
    THEN Throw("InvalidParams",
               "Invalid arguments for " \o Str(toolName) \o " tool. Expected { \"sql\": \"...\" }")
  ELSE LET sqlStatement == args.sql.str
           lowerCaseStatement == trim(toLowerCase(sqlStatement))
       IN IF ~MatchesTool(lowerCaseStatement, toolName)
            THEN Return("Error: SQL statement does not appear to be a valid "
                          \o Str(toUpperCase(toolName)) \o " statement.", TRUE)
            ELSE Call("executeWrite", sqlStatement, toolName)

\* Variant of CallToolHandler: the write tools run as if writes were enabled.
CallToolHandler_Ungated(toolName, args, allowWriteOps) ==
  IF toolName = query THEN QueryBranch(args)
  ELSE IF includes(WriteTools, toolName) THEN WriteBranch(toolName, args, TRUE)
  ELSE Throw("MethodNotFound", "Unknown tool: " \o Str(toolName))

CallToolHandler(toolName, args, allowWriteOps) ==
  IF toolName = query THEN QueryBranch(args)
  ELSE IF includes(WriteTools, toolName) THEN WriteBranch(toolName, args, allowWriteOps)
  ELSE Throw("MethodNotFound", "Unknown tool: " \o Str(toolName))

\* The tool names of the ListTools answer, in the order of the array literal.
ListToolsHandler ==
  << [name |-> query,  required |-> <<"sql">>, sqlType |-> "string"],
     [name |-> insert, required |-> <<"sql">>, sqlType |-> "string"],
     [name |-> update, required |-> <<"sql">>, sqlType |-> "string"],
     [name |-> delete, required |-> <<"sql">>, sqlType |-> "string"] >>

-----------------------------------------------------------------------------
(* The texts executeQuery and executeWrite return *)

QueryErrorText(message) == "MySQL Query Error: " \o message

WriteErrorText(operation, message) ==
  "MySQL " \o Str(toUpperCase(operation)) \o " Error: " \o message

\* Variant of WriteSuccessText: an insertId of 0 is reported like any other.
WriteSuccessText_ZeroId(operation, result) ==
  LET m0 == Str(toUpperCase(operation)) \o " successful."
      m1 == IF result.hasAffectedRows
              THEN m0 \o " Affected rows: " \o NumberToString(result.affectedRows) \o "."
              ELSE m0
      m2 == IF result.hasInsertId
              THEN m1 \o " Insert ID: " \o NumberToString(result.insertId) \o "."
              ELSE m1
  IN m2

WriteSuccessText(operation, result) ==
  LET m0 == Str(toUpperCase(operation)) \o " successful."
      m1 == IF result.hasAffectedRows
              THEN m0 \o " Affected rows: " \o NumberToString(result.affectedRows) \o "."
              ELSE m0
      m2 == IF result.hasInsertId /\ result.insertId # 0
              THEN m1 \o " Insert ID: " \o NumberToString(result.insertId) \o "."
              ELSE m1
  IN m2

-----------------------------------------------------------------------------
(* State *)

VARIABLES
  env,                    \* process.env, fixed when the process starts
  phase,                  \* "loading", "running" or "exited"
  exitCode,               \* the status of process.exit, -1 while the process lives
  MYSQL_ALLOW_WRITE_OPS,  \* the write-enable flag computed at load
  connectionConfig,       \* the connection parameters computed at load
  catalog,                \* the answer to the last ListTools request
  pc,                     \* per invocation: the await it is suspended at, or
                          \* "idle", "done", "abandoned"
  request,                \* per invocation: request.params.name and .arguments
  frame,                  \* per invocation: the locals of executeQuery/executeWrite
  driver,                 \* per invocation: the calls it has made to the driver
  response,               \* per invocation: how the handler's promise settled
  answers,                \* per invocation: how many times it was answered
  connections,            \* the connections the driver has opened, by number
  serverClose             \* the server.close() of the SIGINT handler

vars ==
  <<env, phase, exitCode, MYSQL_ALLOW_WRITE_OPS, connectionConfig, catalog,
    pc, request, frame, driver, response, answers, connections, serverClose>>

NoConfig == [host |-> "undefined", user |-> "undefined",
             password |-> "undefined", database |-> "undefined"]

NoRequest == [name |-> <<>>, arguments |-> JsUndefined]

\* The value null of the local `connection`; a connection is its number, from 1.
NullConnection == 0

NoFrame ==
  [fn |-> "none", sql |-> <<>>, operation |-> <<>>, connection |-> NullConnection,
   error |-> "", rows |-> <<>>, result |-> NoHeader]

NoCalls == [createConnection |-> 0, execute |-> <<>>, end |-> 0, replies |-> <<>>]

\* The driver opens a new connection for the invocation in slot s.
Opened(table, s) == Append(table, [owner |-> s, executes |-> <<>>, ends |-> 0])

\* The invocation in slot s calls execute on connection c.
Executed(table, c, s) == [table EXCEPT ![c].executes = Append(@, s)]

\* end is called on connection c.
Ended(table, c) == [table EXCEPT ![c].ends = @ + 1]

\* A connection whose invocation is over: only its number remains taken.
RetiredConnection == [owner |-> 0, executes |-> <<>>, ends |-> 0]

\* The invocation in slot s is over.
Retired(table, s) ==
  [c \in DOMAIN table |->
     IF table[c].owner = s THEN RetiredConnection ELSE table[c]]

\* What the driver answered to a call: it resolved, with rows or a result
\* header when the call was execute, or it rejected with an error.
Resolved(call, rows, result) ==
  [call |-> call, ok |-> TRUE, message |-> "", rows |-> rows, result |-> result]

Rejected(call, message) ==
  [call |-> call, ok |-> FALSE, message |-> message, rows |-> <<>>, result |-> NoHeader]

NoResponse == [type |-> "none", code |-> "", text |-> "", isError |-> FALSE]

\* A tool result { content: [{ type: 'text', text }], isError }.
Result(text, isError) ==
  [type |-> "result", code |-> "", text |-> text, isError |-> isError]

\* A thrown McpError(code, message).
McpError(code, message) ==
  [type |-> "McpError", code |-> code, text |-> message, isError |-> FALSE]

\* Any other error leaving the handler: its promise rejects with that error.
Rejection(message) ==
  [type |-> "Error", code |-> "", text |-> message, isError |-> FALSE]

Init ==
  /\ env \in Environments
  /\ phase = "loading"
  /\ exitCode = -1
  /\ MYSQL_ALLOW_WRITE_OPS = FALSE
  /\ connectionConfig = NoConfig
  /\ catalog = <<>>
  /\ pc = [s \in AllSlots |-> "idle"]
  /\ request = [s \in AllSlots |-> NoRequest]
  /\ frame = [s \in AllSlots |-> NoFrame]
  /\ driver = [s \in AllSlots |-> NoCalls]
  /\ response = [s \in AllSlots |-> NoResponse]
  /\ answers = [s \in AllSlots |-> 0]
  /\ connections = <<>>
  /\ serverClose = "none"

-----------------------------------------------------------------------------
(* Start-up: the module-level statements before the server is constructed *)

Startup ==
  /\ phase = "loading"
  /\ MYSQL_ALLOW_WRITE_OPS' = (env.MYSQL_ALLOW_WRITE_OPS = "true")
  /\ IF \/ Missing(env.MYSQL_HOST) \/ Missing(env.MYSQL_USER)
        \/ Missing(env.MYSQL_PASSWORD) \/ Missing(env.MYSQL_DATABASE)
       THEN /\ phase' = "exited"
            /\ exitCode' = 1
            /\ UNCHANGED connectionConfig
       ELSE /\ phase' = "running"
            /\ connectionConfig' =
                 [host |-> env.MYSQL_HOST, user |-> env.MYSQL_USER,
                  password |-> env.MYSQL_PASSWORD, database |-> env.MYSQL_DATABASE]
            /\ UNCHANGED exitCode
  /\ UNCHANGED <<serverClose, env, catalog, pc, request, frame, driver, response,
                 answers, connections>>

-----------------------------------------------------------------------------
(* The request handlers *)

ListTools ==
  /\ phase = "running"
  /\ catalog' = ListToolsHandler
  /\ UNCHANGED <<serverClose, env, phase, exitCode, MYSQL_ALLOW_WRITE_OPS, connectionConfig,
                 pc, request, frame, driver, response, answers, connections>>

\* Variant of Invoke: the query tool, too, is refused while writes are disabled.
Invoke_QueryGated(s, toolNames, argValues) ==
  /\ phase = "running"
  /\ pc[s] = "idle"
  /\ \E toolName \in toolNames, args \in argValues :
       LET d == IF toolName = query /\ ~MYSQL_ALLOW_WRITE_OPS
                  THEN WriteBranch(toolName, args, FALSE)
                  ELSE CallToolHandler(toolName, args, MYSQL_ALLOW_WRITE_OPS) IN
       /\ request' = [request EXCEPT ![s] = [name |-> toolName, arguments |-> args]]
       /\ IF d.kind = "call"
            THEN /\ pc' = [pc EXCEPT ![s] = "createConnection"]
                 /\ frame' = [frame EXCEPT ![s] =
                      [NoFrame EXCEPT !.fn = d.fn, !.sql = d.sql,
                                      !.operation = d.operation]]
                 /\ driver' = [driver EXCEPT ![s] =
                      [NoCalls EXCEPT !.createConnection = 1]]
                 /\ response' = [response EXCEPT ![s] = NoResponse]
                 /\ answers' = [answers EXCEPT ![s] = 0]
            ELSE /\ pc' = [pc EXCEPT ![s] = "done"]
                 /\ frame' = [frame EXCEPT ![s] = NoFrame]
                 /\ driver' = [driver EXCEPT ![s] = NoCalls]
                 /\ response' = [response EXCEPT ![s] =
                      IF d.kind = "return" THEN Result(d.text, d.isError)
                                           ELSE McpError(d.code, d.text)]
                 /\ answers' = [answers EXCEPT ![s] = 1]
  /\ UNCHANGED <<serverClose, env, phase, exitCode, MYSQL_ALLOW_WRITE_OPS, connectionConfig, catalog,
                 connections>>

\* A tool invocation arrives and the handler runs up to its first await:
\* it answers at once, or it enters executeQuery/executeWrite and calls
\* mysql.createConnection.
Invoke(s, toolNames, argValues) ==
  /\ phase = "running"
  /\ pc[s] = "idle"
  /\ \E toolName \in toolNames, args \in argValues :
       LET d == CallToolHandler(toolName, args, MYSQL_ALLOW_WRITE_OPS) IN
       /\ request' = [request EXCEPT ![s] = [name |-> toolName, arguments |-> args]]
       /\ IF d.kind = "call"
            THEN /\ pc' = [pc EXCEPT ![s] = "createConnection"]
                 /\ frame' = [frame EXCEPT ![s] =
                      [NoFrame EXCEPT !.fn = d.fn, !.sql = d.sql,
                                      !.operation = d.operation]]
                 /\ driver' = [driver EXCEPT ![s] =
                      [NoCalls EXCEPT !.createConnection = 1]]
                 /\ response' = [response EXCEPT ![s] = NoResponse]
                 /\ answers' = [answers EXCEPT ![s] = 0]
            ELSE /\ pc' = [pc EXCEPT ![s] = "done"]
                 /\ frame' = [frame EXCEPT ![s] = NoFrame]
                 /\ driver' = [driver EXCEPT ![s] = NoCalls]
                 /\ response' = [response EXCEPT ![s] =
                      IF d.kind = "return" THEN Result(d.text, d.isError)
                                           ELSE McpError(d.code, d.text)]
                 /\ answers' = [answers EXCEPT ![s] = 1]
  /\ UNCHANGED <<serverClose, env, phase, exitCode, MYSQL_ALLOW_WRITE_OPS, connectionConfig, catalog,
                 connections>>

\* The names and arguments of the invocations that run beside another one.
ConcurrentToolNames == {query, insert}

ConcurrentArgValues == {JsObject(StrField(toUpperCase(select) \o Rest))}

\* The rows the driver delivers to the invocations that run beside another one.
ConcurrentRowSets ==
  { << [id |-> Num(1)] >>, << [id |-> BigInt(MaxUnsigned64)] >> }

\* The rows the driver may deliver to the invocation in slot s.
RowSetsFor(s) == IF s = 1 THEN RowSets ELSE ConcurrentRowSets

\* A tool invocation among those that run concurrently.
CallToolConcurrently(s) == Invoke(s, ConcurrentToolNames, ConcurrentArgValues)

\* A tool invocation: the first slot takes any of the names and arguments a
\* request may carry, the further slots hold the invocations running beside it.
CallTool(s) ==
  IF s = 1 THEN Invoke(s, ToolNames, ArgValues)
           ELSE CallToolConcurrently(s)

-----------------------------------------------------------------------------
(* executeQuery and executeWrite, one action per settled await *)

\* The text of the catch block's outcome.
ErrorText(f, message) ==
  IF f.fn = "executeQuery" THEN QueryErrorText(message)
                           ELSE WriteErrorText(f.operation, message)

\* The text of the try block's outcome.
SuccessText(f) ==
  IF f.fn = "executeQuery" THEN JSONstringify(f.rows)
                           ELSE WriteSuccessText(f.operation, f.result)

\* The handler returns `outcome` or rejects with it: the invocation is answered.
Settle(s, outcome) ==
  /\ pc' = [pc EXCEPT ![s] = "done"]
  /\ response' = [response EXCEPT ![s] = outcome]
  /\ answers' = [answers EXCEPT ![s] = @ + 1]

\* Variant of CreateConnectionResolves: a connection already opened is handed
\* out again, as a pool would, when there is one.
CreateConnectionResolves_Pooled(s) ==
  /\ phase = "running"
  /\ pc[s] = "createConnection"
  /\ Len(connections) < MaxConnections
  /\ pc' = [pc EXCEPT ![s] = "execute"]
  /\ frame' = [frame EXCEPT ![s].connection =
       IF connections = <<>> THEN 1 ELSE Len(connections)]
  /\ connections' =
       Executed(IF connections = <<>> THEN Opened(connections, s) ELSE connections,
                frame'[s].connection, s)
  /\ driver' = [driver EXCEPT
       ![s].replies = Append(@, Resolved("createConnection", <<>>, NoHeader)),
       ![s].execute = Append(@, frame[s].sql)]
  /\ UNCHANGED <<serverClose, env, phase, exitCode, MYSQL_ALLOW_WRITE_OPS, connectionConfig,
                 catalog, request, response, answers>>

\* createConnection resolves: the connection is kept and execute is called.
CreateConnectionResolves(s) ==
  /\ phase = "running"
  /\ pc[s] = "createConnection"
  /\ Len(connections) < MaxConnections
  /\ pc' = [pc EXCEPT ![s] = "execute"]
  /\ frame' = [frame EXCEPT ![s].connection = Len(connections) + 1]
  /\ connections' = Executed(Opened(connections, s), frame'[s].connection, s)
  /\ driver' = [driver EXCEPT
       ![s].replies = Append(@, Resolved("createConnection", <<>>, NoHeader)),
       ![s].execute = Append(@, frame[s].sql)]
  /\ UNCHANGED <<serverClose, env, phase, exitCode, MYSQL_ALLOW_WRITE_OPS, connectionConfig,
                 catalog, request, response, answers>>

\* createConnection rejects: the catch block finds connection null and returns.
CreateConnectionRejects(s) ==
  /\ phase = "running"
  /\ pc[s] = "createConnection"
  /\ \E message \in ConnectErrors :
       /\ frame' = [frame EXCEPT ![s].error = message]
       /\ driver' = [driver EXCEPT
            ![s].replies = Append(@, Rejected("createConnection", message))]
       /\ Settle(s, Result(ErrorText(frame[s], message), TRUE))
  /\ UNCHANGED <<serverClose, env, phase, exitCode, MYSQL_ALLOW_WRITE_OPS, connectionConfig,
                 catalog, request, connections>>

\* Variant of ExecuteResolves: the result is kept in a variable shared by all
\* invocations instead of a local one.
ExecuteResolves_SharedResult(s) ==
  /\ phase = "running"
  /\ pc[s] = "execute"
  /\ \/ /\ frame[s].fn = "executeQuery"
        /\ \E rows \in RowSetsFor(s) :
             /\ frame' = [t \in DOMAIN frame |->
                  IF frame[t].fn = "executeQuery" /\ pc[t] \in {"execute", "end"}
                    THEN [frame[t] EXCEPT !.rows = rows] ELSE frame[t]]
             /\ driver' = [driver EXCEPT
                  ![s].replies = Append(@, Resolved("execute", rows, NoHeader)),
                  ![s].end = @ + 1]
     \/ /\ frame[s].fn = "executeWrite"
        /\ \E result \in WriteResults :
             /\ frame' = [t \in DOMAIN frame |->
                  IF frame[t].fn = "executeWrite" /\ pc[t] \in {"execute", "end"}
                    THEN [frame[t] EXCEPT !.result = result] ELSE frame[t]]
             /\ driver' = [driver EXCEPT
                  ![s].replies = Append(@, Resolved("execute", <<>>, result)),
                  ![s].end = @ + 1]
  /\ pc' = [pc EXCEPT ![s] = "end"]
  /\ connections' = Ended(connections, frame[s].connection)
  /\ UNCHANGED <<serverClose, env, phase, exitCode, MYSQL_ALLOW_WRITE_OPS, connectionConfig,
                 catalog, request, response, answers>>

\* execute resolves: the result is kept and connection.end is called (try block).
ExecuteResolves(s) ==
  /\ phase = "running"
  /\ pc[s] = "execute"
  /\ \/ /\ frame[s].fn = "executeQuery"
        /\ \E rows \in RowSetsFor(s) :
             /\ frame' = [frame EXCEPT ![s].rows = rows]
             /\ driver' = [driver EXCEPT
                  ![s].replies = Append(@, Resolved("execute", rows, NoHeader)),
                  ![s].end = @ + 1]
     \/ /\ frame[s].fn = "executeWrite"
        /\ \E result \in WriteResults :
             /\ frame' = [frame EXCEPT ![s].result = result]
             /\ driver' = [driver EXCEPT
                  ![s].replies = Append(@, Resolved("execute", <<>>, result)),
                  ![s].end = @ + 1]
  /\ pc' = [pc EXCEPT ![s] = "end"]
  /\ connections' = Ended(connections, frame[s].connection)
  /\ UNCHANGED <<serverClose, env, phase, exitCode, MYSQL_ALLOW_WRITE_OPS, connectionConfig,
                 catalog, request, response, answers>>

\* Variant of ExecuteRejects: the catch block returns without releasing.
ExecuteRejects_NoRelease(s) ==
  /\ phase = "running"
  /\ pc[s] = "execute"
  /\ \E message \in ExecuteErrors :
       /\ frame' = [frame EXCEPT ![s].error = message]
       /\ driver' = [driver EXCEPT
            ![s].replies = Append(@, Rejected("execute", message))]
       /\ pc' = [pc EXCEPT ![s] = "done"]
       /\ response' = [response EXCEPT ![s] = Result(ErrorText(frame[s], message), TRUE)]
       /\ answers' = [answers EXCEPT ![s] = @ + 1]
  /\ UNCHANGED <<serverClose, env, phase, exitCode, MYSQL_ALLOW_WRITE_OPS, connectionConfig,
                 catalog, request, connections>>

\* execute rejects: the catch block finds the connection and calls connection.end.
ExecuteRejects(s) ==
  /\ phase = "running"
  /\ pc[s] = "execute"
  /\ \E message \in ExecuteErrors :
       /\ frame' = [frame EXCEPT ![s].error = message]
       /\ driver' = [driver EXCEPT
            ![s].replies = Append(@, Rejected("execute", message)),
            ![s].end = @ + 1]
  /\ pc' = [pc EXCEPT ![s] = "catchEnd"]
  /\ connections' = Ended(connections, frame[s].connection)
  /\ UNCHANGED <<serverClose, env, phase, exitCode, MYSQL_ALLOW_WRITE_OPS, connectionConfig,
                 catalog, request, response, answers>>

\* connection.end of the try block resolves. executeWrite builds its message
\* and returns; executeQuery serialises the rows and returns, unless
\* JSON.stringify throws: then the catch block, with the connection still
\* set, calls connection.end again.
EndResolves(s) ==
  /\ phase = "running"
  /\ pc[s] = "end"
  /\ IF frame[s].fn = "executeQuery" /\ StringifyThrows(frame[s].rows)
       THEN /\ frame' = [frame EXCEPT ![s].error = BigIntTypeError, ![s].rows = <<>>]
            /\ driver' = [driver EXCEPT
                 ![s].replies = Append(@, Resolved("end", <<>>, NoHeader)),
                 ![s].end = @ + 1]
            /\ connections' = Ended(connections, frame[s].connection)
            /\ pc' = [pc EXCEPT ![s] = "catchEnd"]
            /\ UNCHANGED <<response, answers>>
       ELSE /\ driver' = [driver EXCEPT
                 ![s].replies = Append(@, Resolved("end", <<>>, NoHeader))]
            /\ Settle(s, Result(SuccessText(frame[s]), FALSE))
            /\ UNCHANGED <<frame, connections>>
  /\ UNCHANGED <<serverClose, env, phase, exitCode, MYSQL_ALLOW_WRITE_OPS, connectionConfig,
                 catalog, request>>

\* connection.end of the try block rejects: the catch block, with the
\* connection still set, calls connection.end again.
EndRejects(s) ==
  /\ phase = "running"
  /\ pc[s] = "end"
  /\ \E message \in EndErrors :
       /\ frame' = [frame EXCEPT ![s].error = message, ![s].rows = <<>>,
                                 ![s].result = NoHeader]
       /\ driver' = [driver EXCEPT
            ![s].replies = Append(@, Rejected("end", message)),
            ![s].end = @ + 1]
  /\ pc' = [pc EXCEPT ![s] = "catchEnd"]
  /\ connections' = Ended(connections, frame[s].connection)
  /\ UNCHANGED <<serverClose, env, phase, exitCode, MYSQL_ALLOW_WRITE_OPS, connectionConfig,
                 catalog, request, response, answers>>

\* connection.end of the catch block resolves: the error outcome is returned.
CatchEndResolves(s) ==
  /\ phase = "running"
  /\ pc[s] = "catchEnd"
  /\ driver' = [driver EXCEPT
       ![s].replies = Append(@, Resolved("end", <<>>, NoHeader))]
  /\ Settle(s, Result(ErrorText(frame[s], frame[s].error), TRUE))
  /\ UNCHANGED <<serverClose, env, phase, exitCode, MYSQL_ALLOW_WRITE_OPS, connectionConfig,
                 catalog, request, frame, connections>>

\* connection.end of the catch block rejects: nothing catches it, and the
\* promise of executeQuery/executeWrite, hence the handler's, rejects with it.
CatchEndRejects(s) ==
  /\ phase = "running"
  /\ pc[s] = "catchEnd"
  /\ \E message \in EndErrors :
       /\ driver' = [driver EXCEPT
            ![s].replies = Append(@, Rejected("end", message))]
       /\ Settle(s, Rejection(message))
  /\ UNCHANGED <<serverClose, env, phase, exitCode, MYSQL_ALLOW_WRITE_OPS, connectionConfig,
                 catalog, request, frame, connections>>

\* The transport has written the answer of a settled invocation: the request
\* is over and nothing of it is kept.
Respond(s) ==
  /\ phase = "running"
  /\ pc[s] = "done"
  /\ pc' = [pc EXCEPT ![s] = "idle"]
  /\ request' = [request EXCEPT ![s] = NoRequest]
  /\ frame' = [frame EXCEPT ![s] = NoFrame]
  /\ driver' = [driver EXCEPT ![s] = NoCalls]
  /\ response' = [response EXCEPT ![s] = NoResponse]
  /\ answers' = [answers EXCEPT ![s] = 0]
  /\ connections' = Retired(connections, s)
  /\ UNCHANGED <<serverClose, env, phase, exitCode, MYSQL_ALLOW_WRITE_OPS, connectionConfig, catalog>>

-----------------------------------------------------------------------------
(* The SIGINT handler: await this.server.close(); process.exit(0) *)

\* What is left of the invocations when the process ends: those suspended at
\* an await are abandoned there, and the memory of the process is gone.
Abandoned ==
  [s \in DOMAIN pc |-> IF pc[s] \in {"idle", "done"} THEN "idle" ELSE "abandoned"]

\* process.exit(code).
Exit(code) ==
  /\ phase' = "exited"
  /\ exitCode' = code
  /\ pc' = Abandoned
  /\ request' = [s \in DOMAIN pc |-> NoRequest]
  /\ frame' = [s \in DOMAIN pc |-> NoFrame]
  /\ driver' = [s \in DOMAIN pc |-> NoCalls]
  /\ response' = [s \in DOMAIN pc |-> NoResponse]
  /\ answers' = [s \in DOMAIN pc |-> 0]
  /\ connections' = <<>>
  /\ catalog' = <<>>

\* Variant of Sigint: server.close() is called but not awaited, and the
\* process exits at once.
Sigint_NotAwaited ==
  /\ phase = "running"
  /\ serverClose = "none"
  /\ serverClose' = "pending"
  /\ Exit(0)
  /\ UNCHANGED <<env, MYSQL_ALLOW_WRITE_OPS, connectionConfig>>

\* The interrupt signal arrives: the handler calls this.server.close() and
\* awaits it.  The handlers of invocations in flight go on meanwhile.  One
\* close is pending at a time.
Sigint ==
  /\ phase = "running"
  /\ serverClose = "none"
  /\ serverClose' = "pending"
  /\ UNCHANGED <<env, phase, exitCode, MYSQL_ALLOW_WRITE_OPS, connectionConfig,
                 catalog, pc, request, frame, driver, response, answers, connections>>

\* server.close() resolves: process.exit(0).  Nothing waits for the invocations
\* in flight.
CloseResolves ==
  /\ phase = "running"
  /\ serverClose = "pending"
  /\ serverClose' = "resolved"
  /\ Exit(0)
  /\ UNCHANGED <<env, MYSQL_ALLOW_WRITE_OPS, connectionConfig>>

\* server.close() rejects: the async handler's promise rejects and nothing
\* handles it.  Depending on the runtime's treatment of unhandled rejections
\* the process ends with status 1, or it goes on after a warning with no close
\* pending any more.
CloseRejects ==
  /\ phase = "running"
  /\ serverClose = "pending"
  /\ \/ /\ serverClose' = "rejected"
        /\ Exit(1)
     \/ /\ serverClose' = "none"
        /\ UNCHANGED <<phase, exitCode, catalog, pc, request, frame, driver,
                       response, answers, connections>>
  /\ UNCHANGED <<env, MYSQL_ALLOW_WRITE_OPS, connectionConfig>>

-----------------------------------------------------------------------------

Next ==
  \/ Startup
  \/ ListTools
  \/ \E s \in Slots : CallTool(s)
  \/ \E s \in Slots : CreateConnectionResolves(s)
  \/ \E s \in Slots : CreateConnectionRejects(s)
  \/ \E s \in Slots : ExecuteResolves(s)
  \/ \E s \in Slots : ExecuteRejects(s)
  \/ \E s \in Slots : EndResolves(s)
  \/ \E s \in Slots : EndRejects(s)
  \/ \E s \in Slots : CatchEndResolves(s)
  \/ \E s \in Slots : CatchEndRejects(s)
  \/ \E s \in Slots : Respond(s)
  \/ Sigint
  \/ CloseResolves
  \/ CloseRejects

Spec == Init /\ [][Next]_vars

-----------------------------------------------------------------------------
(* Concurrent invocations, some of whose database calls never return *)

\* The server starts with a complete configuration and writes enabled, and no
\* interrupt signal reaches it.
InitConcurrent ==
  /\ Init
  /\ env = [MYSQL_HOST |-> "set", MYSQL_USER |-> "set", MYSQL_PASSWORD |-> "set",
            MYSQL_DATABASE |-> "set", MYSQL_ALLOW_WRITE_OPS |-> "true"]

NextConcurrent ==
  \/ Startup
  \/ ListTools
  \/ \E s \in ConcurrentSlots : CallToolConcurrently(s)
  \/ \E s \in ConcurrentSlots : CreateConnectionResolves(s)
  \/ \E s \in ConcurrentSlots : CreateConnectionRejects(s)
  \/ \E s \in ConcurrentSlots : ExecuteResolves(s)
  \/ \E s \in ConcurrentSlots : ExecuteRejects(s)
  \/ \E s \in ConcurrentSlots : EndResolves(s)
  \/ \E s \in ConcurrentSlots : EndRejects(s)
  \/ \E s \in ConcurrentSlots : CatchEndResolves(s)
  \/ \E s \in ConcurrentSlots : CatchEndRejects(s)
  \/ \E s \in ConcurrentSlots : Respond(s)

\* The slot whose database calls all return; those of the other slots may
\* stay pending for ever.
ServedSlot == MaxConcurrent

\* The driver answers the call the invocation in slot s is suspended at.
DriverReplies(s) ==
  \/ CreateConnectionResolves(s) \/ CreateConnectionRejects(s)
  \/ ExecuteResolves(s) \/ ExecuteRejects(s)
  \/ EndResolves(s) \/ EndRejects(s)
  \/ CatchEndResolves(s) \/ CatchEndRejects(s)

\* Every call the invocation of ServedSlot makes to the driver is answered.
DriverAnswers == WF_vars(DriverReplies(ServedSlot))

SpecConcurrent == InitConcurrent /\ [][NextConcurrent]_vars /\ DriverAnswers

-----------------------------------------------------------------------------
(* Vocabulary of the properties *)

\* An invocation is under way or answered in slot s of the running process.
Invoked(s) == pc[s] \notin {"idle", "abandoned"}

Answered(s) == pc[s] = "done"

WriteToolNames == {insert, update, delete}

CatalogNames == <<query, insert, update, delete>>

\* The arguments are an object with a string field sql.
WellFormed(args) == args \in ValidArgs

\* The statement after trimming and lower-casing.
Normalized(sql) == trim(toLowerCase(sql))

WordChars ==
  {LowerLetters[i] : i \in DOMAIN LowerLetters}
    \cup {UpperLetters[i] : i \in DOMAIN UpperLetters}
    \cup {Digits[i] : i \in DOMAIN Digits} \cup {"_"}

\* The leading token of a statement: its longest prefix of word characters.
RECURSIVE LeadingToken(_)
LeadingToken(sql) ==
  IF sql = <<>> \/ Head(sql) \notin WordChars THEN <<>>
  ELSE <<Head(sql)>> \o LeadingToken(Tail(sql))

\* The invocation in slot s never reached the database driver.
NoDatabase(s) == driver[s] = NoCalls /\ frame[s].fn = "none"

ToolText(name) ==
  CASE name = insert -> "insert"
    [] name = update -> "update"
    [] name = delete -> "delete"
    [] OTHER -> "?"

OperationText(name) ==
  CASE name = insert -> "INSERT"
    [] name = update -> "UPDATE"
    [] name = delete -> "DELETE"
    [] OTHER -> "?"

DecimalText(n) ==
  CASE n = 0 -> "0" [] n = 1 -> "1" [] n = 3 -> "3" [] n = 42 -> "42" [] OTHER -> "?"

DisabledText(name) ==
  "Error: Write operations are disabled. Set MYSQL_ALLOW_WRITE_OPS=true in MCP settings to enable "
    \o ToolText(name) \o "."

OnlyReadText ==
  "Error: Only SELECT, SHOW, or DESCRIBE queries are allowed for the \"query\" tool."

InvalidParams(s) ==
  response[s].type = "McpError" /\ response[s].code = "InvalidParams"

MethodNotFound(s) ==
  response[s].type = "McpError" /\ response[s].code = "MethodNotFound"

FlaggedError(s) == response[s].type = "result" /\ response[s].isError

-----------------------------------------------------------------------------
(* C1 *)

\* C1: every invocation of insert, update or delete while the write-enable
\* flag is false, whatever its arguments, is answered at once by a flagged
\* error whose text is the write-disabled message naming MYSQL_ALLOW_WRITE_OPS
\* and the tool, and it makes no call to the database driver.
C1_WriteGateClosed ==
  \A s \in Slots :
    (Invoked(s) /\ request[s].name \in WriteToolNames /\ ~MYSQL_ALLOW_WRITE_OPS)
      => /\ Answered(s)
         /\ response[s] = Result(DisabledText(request[s].name), TRUE)
         /\ answers[s] = 1
         /\ NoDatabase(s)

\* A well-formed INSERT sent to insert, and a malformed call of delete, both
\* blocked by the closed gate.
C1_Witness ==
  /\ ~MYSQL_ALLOW_WRITE_OPS
  /\ \E s \in Slots :
       /\ Answered(s)
       /\ \/ /\ request[s].name = insert
             /\ request[s].arguments = JsObject(StrField(toUpperCase(insert) \o Rest))
          \/ /\ request[s].name = delete
             /\ request[s].arguments = JsNull
       /\ FlaggedError(s)

-----------------------------------------------------------------------------
(* C2 *)

\* C2 as stated: every invocation whose arguments are not an object with a
\* string sql, for every tool name and either value of the flag, is answered
\* by an invalid-params error and never reaches the database.
C2_Original ==
  \A s \in Slots :
    (Invoked(s) /\ ~WellFormed(request[s].arguments))
      => Answered(s) /\ InvalidParams(s) /\ NoDatabase(s)

\* C2 (amended): an invocation whose arguments are not an object with a string
\* sql never reaches the database; it is answered by an invalid-params error
\* when the tool is query, or is insert/update/delete with the flag true; by
\* the write-disabled flagged error when the tool is insert/update/delete with
\* the flag false; and by method-not-found when the name is no tool.
C2_MalformedArguments ==
  \A s \in Slots :
    (Invoked(s) /\ ~WellFormed(request[s].arguments))
      => /\ Answered(s)
         /\ NoDatabase(s)
         /\ LET name == request[s].name IN
            /\ (name = query \/ (name \in WriteToolNames /\ MYSQL_ALLOW_WRITE_OPS))
                 => InvalidParams(s)
            /\ (name \in WriteToolNames /\ ~MYSQL_ALLOW_WRITE_OPS)
                 => response[s] = Result(DisabledText(name), TRUE)
            /\ (name # query /\ name \notin WriteToolNames) => MethodNotFound(s)

\* update called with { sql: <number> } while writes are enabled.
C2_Witness ==
  /\ MYSQL_ALLOW_WRITE_OPS
  /\ \E s \in Slots :
       /\ Answered(s)
       /\ request[s].name = update
       /\ request[s].arguments = JsObject(NumField)
       /\ InvalidParams(s)

-----------------------------------------------------------------------------
(* C3 *)

\* C3 as stated: a well-formed query invocation whose normalised statement has
\* a leading token other than select, show, describe is answered by the
\* read-only flagged error and opens no connection.
C3_Original ==
  \A s \in Slots :
    (/\ Invoked(s)
     /\ request[s].name = query
     /\ WellFormed(request[s].arguments)
     /\ LeadingToken(Normalized(request[s].arguments.sql.str))
          \notin {select, show, describe})
      => /\ Answered(s)
         /\ response[s] = Result(OnlyReadText, TRUE)
         /\ NoDatabase(s)

\* C3 (amended): a well-formed query invocation whose normalised statement
\* does not begin with the characters select, show or describe (a test of the
\* first characters, not of the first token) is answered by the read-only
\* flagged error and opens no connection.
C3_QueryRejectsNonRead ==
  \A s \in Slots :
    (/\ Invoked(s)
     /\ request[s].name = query
     /\ WellFormed(request[s].arguments)
     /\ LET n == Normalized(request[s].arguments.sql.str) IN
        \A k \in {select, show, describe} :
          ~(Len(n) >= Len(k) /\ \A i \in 1..Len(k) : n[i] = k[i]))
      => /\ Answered(s)
         /\ response[s] = Result(OnlyReadText, TRUE)
         /\ answers[s] = 1
         /\ NoDatabase(s)

\* query called with a padded lower-case delete statement, and with the empty
\* statement.
C3_Witness ==
  \E s \in Slots :
    /\ Answered(s)
    /\ request[s].name = query
    /\ request[s].arguments \in
         {JsObject(StrField(<<"\n", " ">> \o delete \o Rest \o <<" ">>)),
          JsObject(StrField(<<>>))}
    /\ FlaggedError(s)

-----------------------------------------------------------------------------
(* C4 *)

\* C4 as stated: with the flag true, a well-formed write invocation whose
\* normalised statement has a leading token different from the tool name is
\* answered by a flagged error and executeWrite is not reached.
C4_Original ==
  \A s \in Slots :
    (/\ Invoked(s)
     /\ MYSQL_ALLOW_WRITE_OPS
     /\ request[s].name \in WriteToolNames
     /\ WellFormed(request[s].arguments)
     /\ LeadingToken(Normalized(request[s].arguments.sql.str)) # request[s].name)
      => /\ Answered(s)
         /\ FlaggedError(s)
         /\ NoDatabase(s)

\* C4 (amended): with the flag true, a well-formed write invocation whose
\* normalised statement does not begin with the characters of the tool name
\* (a test of the first characters, not of the first token) is answered by a
\* flagged error naming the operation and executeWrite is not reached.
C4_WriteRejectsMismatch ==
  \A s \in Slots :
    (/\ Invoked(s)
     /\ MYSQL_ALLOW_WRITE_OPS
     /\ request[s].name \in WriteToolNames
     /\ WellFormed(request[s].arguments)
     /\ LET n == Normalized(request[s].arguments.sql.str)
            k == request[s].name
        IN ~(Len(n) >= Len(k) /\ \A i \in 1..Len(k) : n[i] = k[i]))
      => /\ Answered(s)
         /\ response[s] =
              Result("Error: SQL statement does not appear to be a valid "
                       \o OperationText(request[s].name) \o " statement.", TRUE)
         /\ answers[s] = 1
         /\ NoDatabase(s)

\* update called with a DELETE statement while writes are enabled.
C4_Witness ==
  /\ MYSQL_ALLOW_WRITE_OPS
  /\ \E s \in Slots :
       /\ Answered(s)
       /\ request[s].name = update
       /\ request[s].arguments = JsObject(StrField(toUpperCase(delete) \o Rest))
       /\ FlaggedError(s)

-----------------------------------------------------------------------------
(* C5 *)

\* C5: whenever an invocation that acquired a connection in executeQuery or
\* executeWrite has completed (after execute succeeded, after execute failed,
\* or after the release itself failed), connection.end has been invoked on it.
C5_ReleasedBeforeCompletion ==
  \A s \in Slots :
    (Answered(s) /\ frame[s].connection # NullConnection)
      => driver[s].end >= 1

\* An invocation whose statement failed, and one whose first release failed,
\* both completed.
C5_Witness ==
  \E s \in Slots :
    /\ Answered(s)
    /\ frame[s].connection # NullConnection
    /\ frame[s].error \in ExecuteErrors \cup EndErrors
    /\ driver[s].end >= 1

-----------------------------------------------------------------------------
(* C6 *)

\* C6 as stated: when execute fails in executeQuery, connection.end is invoked
\* exactly once and the outcome returned is the flagged error
\* "MySQL Query Error: " followed by the driver's message; when createConnection
\* fails, connection.end is not invoked and the outcome is a flagged error.
C6_Original ==
  \A s \in Slots :
    (Answered(s) /\ frame[s].fn = "executeQuery")
      => /\ (frame[s].connection # NullConnection /\ frame[s].error \in ExecuteErrors)
              => /\ driver[s].end = 1
                 /\ response[s] =
                      Result("MySQL Query Error: " \o frame[s].error, TRUE)
         /\ frame[s].connection = NullConnection
              => /\ driver[s].end = 0
                 /\ FlaggedError(s)

-----------------------------------------------------------------------------
(* C7 *)

\* C7 as stated: executeQuery and executeWrite never raise; however they
\* complete, the invocation is answered by a returned outcome, never by a
\* raw error.
C7_Original ==
  \A s \in Slots :
    (Answered(s) /\ frame[s].fn # "none") => response[s].type = "result"

-----------------------------------------------------------------------------
(* C8 *)

\* C8 as stated (its safety half): an answered invocation has been answered
\* exactly once, by an outcome, an invalid-params error or a method-not-found
\* error, and by nothing else.
C8_Original ==
  \A s \in Slots :
    Answered(s)
      => /\ answers[s] = 1
         /\ \/ response[s].type = "result"
            \/ InvalidParams(s)
            \/ MethodNotFound(s)

-----------------------------------------------------------------------------
(* C9 *)

\* The confirmation text the claim prescribes for a tool name and a result.
C9_Text(name, r) ==
  OperationText(name) \o " successful."
    \o (IF r.hasAffectedRows
          THEN " Affected rows: " \o DecimalText(r.affectedRows) \o "." ELSE "")
    \o (IF r.hasInsertId /\ r.insertId # 0
          THEN " Insert ID: " \o DecimalText(r.insertId) \o "." ELSE "")

\* C9: a write that completed without any failure is answered by an outcome
\* that is not flagged and whose text is "{OPERATION} successful.", then
\* " Affected rows: {n}." iff the result has an affected-row count, then
\* " Insert ID: {id}." iff the result has a non-zero generated identifier
\* (delete with 3 affected rows: "DELETE successful. Affected rows: 3.").
C9_WriteSuccessMessage ==
  \A s \in Slots :
    (Answered(s) /\ frame[s].fn = "executeWrite" /\ frame[s].error = "")
      => /\ response[s] = Result(C9_Text(request[s].name, frame[s].result), FALSE)
         /\ (request[s].name = delete /\ frame[s].result = Header(TRUE, 3, TRUE, 0))
              => response[s].text = "DELETE successful. Affected rows: 3."
         /\ (request[s].name = insert /\ frame[s].result = Header(TRUE, 1, TRUE, 42))
              => response[s].text = "INSERT successful. Affected rows: 1. Insert ID: 42."

\* A successful insert whose result carries insertId 0: no Insert ID clause.
C9_Witness ==
  \E s \in Slots :
    /\ Answered(s)
    /\ frame[s].fn = "executeWrite"
    /\ request[s].name = insert
    /\ frame[s].result = Header(TRUE, 1, TRUE, 0)
    /\ response[s] = Result("INSERT successful. Affected rows: 1.", FALSE)

-----------------------------------------------------------------------------
(* C10 *)

\* C10: every ListTools answer is the ordered list query, insert, update,
\* delete; an invocation naming a tool outside that list is answered by
\* method-not-found and never reaches the database; an invocation naming a
\* tool of the list is never answered by method-not-found.
C10_ToolResolution ==
  /\ catalog # <<>> => [i \in DOMAIN catalog |-> catalog[i].name] = CatalogNames
  /\ \A s \in Slots :
       Invoked(s) =>
         IF \E i \in DOMAIN CatalogNames : CatalogNames[i] = request[s].name
           THEN ~MethodNotFound(s)
           ELSE Answered(s) /\ MethodNotFound(s) /\ NoDatabase(s)

\* The catalog has been listed and an invocation of a name outside it (Query,
\* which differs from query by its case) has been answered.
C10_Witness ==
  /\ catalog # <<>>
  /\ \E s \in Slots :
       /\ Answered(s)
       /\ request[s].name = <<"Q","u","e","r","y">>
       /\ MethodNotFound(s)

-----------------------------------------------------------------------------
(* C11 *)

\* A required connection parameter is absent or empty in the environment.
C11_ParameterMissing ==
  \E k \in {"MYSQL_HOST", "MYSQL_USER", "MYSQL_PASSWORD", "MYSQL_DATABASE"} :
    env[k] = "undefined" \/ env[k] = ""

\* Some protocol handling has taken place.
C11_Handling == catalog # <<>> \/ \E s \in DOMAIN pc : pc[s] # "idle"

\* C11: when a required connection parameter (host, user, password, database)
\* is absent or empty, the process, once past loading, has exited with a
\* nonzero status and has handled no request; whenever a request is handled
\* all four parameters of the configuration are non-empty; and once the server
\* runs, the configuration and the flag never change.
C11_StartupConfiguration ==
  /\ [](/\ (C11_ParameterMissing /\ phase # "loading")
              => (phase = "exited" /\ exitCode > 0 /\ ~C11_Handling)
        /\ C11_Handling
              => \A k \in DOMAIN connectionConfig :
                   connectionConfig[k] \notin {"undefined", ""})
  /\ [][phase = "running"
          => /\ connectionConfig' = connectionConfig
             /\ MYSQL_ALLOW_WRITE_OPS' = MYSQL_ALLOW_WRITE_OPS
             /\ env' = env]_vars

\* The process has exited at start-up because the password is the empty string.
C11_Witness ==
  /\ phase = "exited"
  /\ exitCode = 1
  /\ env.MYSQL_PASSWORD = ""
  /\ env.MYSQL_HOST = "set" /\ env.MYSQL_USER = "set" /\ env.MYSQL_DATABASE = "set"

-----------------------------------------------------------------------------
(* C12 *)

\* The decimal digits of the big integers the driver may deliver, written out.
C12_Digits(d) ==
  CASE d = Beyond2Pow53 -> "9007199254740993"
    [] d = MaxUnsigned64 -> "18446744073709551615"
    [] OTHER -> "?"

\* The JSON text of one row: a big integer is its digits between quotes.
C12_Row(row) ==
  "  {\n    \"id\": "
    \o (IF row.id.t = "bigint" THEN "\"" \o C12_Digits(row.id.digits) \o "\""
                               ELSE DecimalText(row.id.n))
    \o "\n  }"

\* The invocation in slot s is a read on which createConnection, execute and
\* end have all resolved, and execute delivered a big integer.
C12_ReadOfBigInteger(s) ==
  /\ frame[s].fn = "executeQuery"
  /\ Len(driver[s].replies) = 3
  /\ \A i \in 1..3 : driver[s].replies[i].ok
  /\ \E j \in DOMAIN driver[s].replies[2].rows :
       driver[s].replies[2].rows[j].id.t = "bigint"

\* C12: a successful read whose rows carry an integer beyond 2^53 - 1,
\* delivered as a big integer, is answered, without any exception, by an
\* unflagged outcome in whose JSON text that integer is the string of its
\* exact decimal digits (9007199254740993, 18446744073709551615).
C12_BigIntegerDigits ==
  \A s \in DOMAIN pc :
    C12_ReadOfBigInteger(s)
      => LET rows == driver[s].replies[2].rows IN
         /\ pc[s] = "done"
         /\ driver[s].end = 1
         /\ response[s].type = "result"
         /\ ~response[s].isError
         /\ response[s].text =
              (IF Len(rows) = 1
                 THEN "[\n" \o C12_Row(rows[1]) \o "\n]"
                 ELSE "[\n" \o C12_Row(rows[1]) \o ",\n" \o C12_Row(rows[2]) \o "\n]")
         /\ rows = << [id |-> BigInt(MaxUnsigned64)] >>
              => response[s].text = "[\n  {\n    \"id\": \"18446744073709551615\"\n  }\n]"

\* A read that delivered 42 and 2^53 + 1 has been answered.
C12_Witness ==
  \E s \in DOMAIN pc :
    /\ C12_ReadOfBigInteger(s)
    /\ driver[s].replies[2].rows = << [id |-> Num(42)], [id |-> BigInt(Beyond2Pow53)] >>
    /\ response[s].text =
         "[\n  {\n    \"id\": 42\n  },\n  {\n    \"id\": \"9007199254740993\"\n  }\n]"

-----------------------------------------------------------------------------
(* C13 *)

\* C13: an invocation calls createConnection at most once and execute at most
\* once (nothing is retried); at most one open connection belongs to it, and
\* the connection it holds is its own; and on every connection the driver
\* has opened, execute has been called at most once, and only by the
\* invocation it was opened for, never by a later or a concurrent one.
C13_NoPoolingNoRetry ==
  /\ \A s \in DOMAIN pc :
       /\ driver[s].createConnection <= 1
       /\ Len(driver[s].execute) <= 1
       /\ Cardinality({c \in DOMAIN connections : connections[c].owner = s}) <= 1
       /\ frame[s].connection # NullConnection
            => /\ frame[s].connection \in DOMAIN connections
               /\ connections[frame[s].connection].owner = s
  /\ \A c \in DOMAIN connections :
       /\ Len(connections[c].executes) <= 1
       /\ \A i \in DOMAIN connections[c].executes :
            connections[c].executes[i] = connections[c].owner

\* A second invocation executes on a second connection, after the invocation
\* of the first connection is over.
C13_Witness ==
  /\ Len(connections) = 2
  /\ connections[1] = RetiredConnection
  /\ connections[2].owner # 0
  /\ connections[2].executes = <<connections[2].owner>>
  /\ pc[connections[2].owner] = "execute"


-----------------------------------------------------------------------------
(* C14: invocations running at the same time *)

\* What one invocation, taken alone, answers: a function of its request, of the
\* write flag and of the replies the driver gave to its own calls, in order.
\* The replies are: to createConnection; then to execute and to connection.end;
\* then, when the try block failed after execute was sent, to the
\* connection.end of the catch block.
C14_Answer(req, flag, replies) ==
  LET d == CallToolHandler(req.name, req.arguments, flag)
      tried == [fn |-> d.fn, operation |-> d.operation,
                rows |-> replies[2].rows, result |-> replies[2].result]
      caught == IF ~replies[2].ok THEN replies[2].message
                ELSE IF ~replies[3].ok THEN replies[3].message
                ELSE BigIntTypeError
      last == replies[Len(replies)]
  IN  IF d.kind = "return" THEN Result(d.text, d.isError)
      ELSE IF d.kind = "throw" THEN McpError(d.code, d.text)
      ELSE IF Len(replies) = 1 THEN Result(ErrorText(d, replies[1].message), TRUE)
      ELSE IF Len(replies) = 3 /\ replies[2].ok THEN Result(SuccessText(tried), FALSE)
      ELSE IF last.ok THEN Result(ErrorText(d, caught), TRUE)
      ELSE Rejection(last.message)

\* The answer of every invocation is the one it would give alone, whatever the
\* other invocations are doing or have done.
C14_OwnAnswer ==
  \A s \in DOMAIN pc :
    Answered(s) =>
      response[s] = C14_Answer(request[s], MYSQL_ALLOW_WRITE_OPS, driver[s].replies)

\* An invocation that has not been answered yet.
C14_Pending(s) == Invoked(s) /\ ~Answered(s)

\* C14: when several invocations are in flight at once, (a) each one's answer
\* depends only on its own request, the process configuration and the replies
\* the database gave to its own calls, and (b) an invocation whose own database
\* calls are all answered is itself eventually answered, even while the database
\* calls of the other invocations stay pending for ever.
C14_Concurrency ==
  /\ []C14_OwnAnswer
  /\ C14_Pending(ServedSlot) ~> Answered(ServedSlot)

\* An invocation has been answered with its rows or its write message while
\* another one, carrying the same request and started no later, still waits for
\* the database to answer its execute.
C14_Witness ==
  \E s \in ConcurrentSlots \ {ServedSlot} :
    /\ pc[s] = "execute"
    /\ request[s] = request[ServedSlot]
    /\ Answered(ServedSlot)
    /\ response[ServedSlot].type = "result"
    /\ ~response[ServedSlot].isError
    /\ Len(driver[ServedSlot].replies) = 3
    /\ connections[1].owner = s
    /\ connections[2].owner = ServedSlot

-----------------------------------------------------------------------------
(* C15: the statement executed is the original one *)

\* The texts invocation s has handed to connection.execute.
C15_Sent(s) == driver[s].execute

\* C15: trimming and lower-casing serve the prefix comparison only: whenever an
\* invocation of the query tool or of a write tool has a statement executed, the
\* text handed to the database is its sql argument, character for character.
C15_OriginalStatementExecuted ==
  \A s \in DOMAIN pc :
    C15_Sent(s) # <<>> =>
      /\ WellFormed(request[s].arguments)
      /\ \A i \in DOMAIN C15_Sent(s) :
           C15_Sent(s)[i] = request[s].arguments.sql.str

\* A write tool has had a statement executed that normalisation would change:
\* it is in lower case and padded with white space on both sides.
C15_Witness ==
  \E s \in DOMAIN pc :
    /\ request[s].name = delete
    /\ C15_Sent(s) = <<(<<"\n", " ">> \o delete \o Rest \o <<" ">>)>>
    /\ Normalized(C15_Sent(s)[1]) # C15_Sent(s)[1]
    /\ Normalized(C15_Sent(s)[1]) = delete \o Rest

-----------------------------------------------------------------------------
(* C16: the interrupt signal *)

\* The process ends with status 0 in this step.
C16_ExitsWithZero == exitCode # 0 /\ exitCode' = 0

\* The close of the server is started in this step.
C16_CloseStarts == serverClose # "pending" /\ serverClose' = "pending"

\* The invocations suspended at an await.
C16_InFlight == {s \in DOMAIN pc : pc[s] \notin {"idle", "done", "abandoned"}}

\* What a step of the process respects.
C16_Step ==
  /\ C16_CloseStarts => (phase' = "running" /\ exitCode' = exitCode)
  /\ C16_ExitsWithZero => /\ serverClose = "pending"
                          /\ serverClose' = "resolved"
                          /\ phase' = "exited"
                          /\ \A s \in C16_InFlight :
                               pc'[s] = "abandoned" /\ response'[s] = NoResponse

\* C16: on an interrupt signal the process never exits before the close of the
\* server has completed: the close is started while the process goes on running,
\* it is awaited, and the process exits with status 0 only in the step in which
\* the pending close completes; invocations in flight are not waited for, they
\* are abandoned unanswered.
C16_CloseBeforeExit ==
  /\ [](exitCode = 0 => (phase = "exited" /\ serverClose = "resolved"))
  /\ [][C16_Step]_vars

\* The process has exited with status 0 after the close completed, and an
\* invocation that was still suspended at an await has been abandoned.
C16_Witness ==
  /\ phase = "exited"
  /\ exitCode = 0
  /\ serverClose = "resolved"
  /\ \E s \in DOMAIN pc : pc[s] = "abandoned"

-----------------------------------------------------------------------------
(* C17: nothing but reads reaches the database while writes are disabled *)

\* The statement, once normalised, begins with one of the three read keywords
\* and with none of the three write keywords.
C17_IsRead(sql) ==
  LET n == Normalized(sql)
  IN  /\ \E k \in {select, show, describe} : startsWith(n, k)
      /\ \A k \in WriteToolNames : ~startsWith(n, k)

\* C17: while the write-enable flag is false, whatever tools have been invoked
\* with whatever arguments, every statement sent to the database begins, once
\* trimmed and lower-cased, with select, show or describe, and none begins with
\* insert, update or delete.
C17_ReadOnlyWhileDisabled ==
  ~MYSQL_ALLOW_WRITE_OPS =>
    \A s \in DOMAIN pc :
      \A i \in DOMAIN driver[s].execute : C17_IsRead(driver[s].execute[i])

\* With the flag false, the server is running and a statement has been sent
\* to the database.
C17_Witness ==
  /\ phase = "running"
  /\ ~MYSQL_ALLOW_WRITE_OPS
  /\ \E s \in DOMAIN pc :
       /\ driver[s].execute # <<>>
       /\ C17_IsRead(driver[s].execute[1])

-----------------------------------------------------------------------------
(* C18: how often a connection is released *)

\* C18: connection.end is invoked at most once for every connection acquired, on
\* every path of executeQuery and executeWrite, the one where execute succeeds
\* and the release itself fails included.
C18_Original ==
  /\ \A c \in DOMAIN connections : connections[c].ends <= 1
  /\ \A s \in DOMAIN pc : driver[s].end <= 1

-----------------------------------------------------------------------------
(* C19: the query tool and the write-enable flag *)

\* The calls one invocation, taken alone, has made to the driver so far: a
\* function of its request, of the write flag and of the replies to its calls.
C19_Calls(req, flag, replies) ==
  LET d == CallToolHandler(req.name, req.arguments, flag)
      n == Len(replies)
  IN  IF d.kind # "call" THEN [createConnection |-> 0, execute |-> <<>>, end |-> 0]
      ELSE [createConnection |-> 1,
            execute |-> IF n >= 1 /\ replies[1].ok THEN <<d.sql>> ELSE <<>>,
            end |-> IF n < 2 THEN 0
                    ELSE IF /\ n >= 3
                            /\ replies[2].ok
                            /\ ~replies[3].ok \/ StringifyThrows(replies[2].rows)
                      THEN 2
                    ELSE 1]

\* C19: the query tool does not depend on the write-enable flag: a run with the
\* other value of the flag, given the same request and the same replies of the
\* database, makes the same calls to the database and gives the same answer.
C19_QueryIgnoresFlag ==
  \A s \in DOMAIN pc :
    Invoked(s) /\ request[s].name = query =>
      /\ [createConnection |-> driver[s].createConnection,
          execute |-> driver[s].execute,
          end |-> driver[s].end]
           = C19_Calls(request[s], ~MYSQL_ALLOW_WRITE_OPS, driver[s].replies)
      /\ Answered(s) =>
           response[s]
             = C14_Answer(request[s], ~MYSQL_ALLOW_WRITE_OPS, driver[s].replies)

\* With the flag false, the query tool has been answered with the rows of a
\* statement the database executed.
C19_Witness ==
  /\ ~MYSQL_ALLOW_WRITE_OPS
  /\ \E s \in DOMAIN pc :
       /\ Answered(s)
       /\ request[s].name = query
       /\ driver[s].execute # <<>>
       /\ Len(driver[s].replies) = 3
       /\ response[s].type = "result"
       /\ ~response[s].isError
====
